---- MODULE Spec2Model ----
(***************************************************************************)
(* Model of optimizePortfolio (the portfolio weight optimizer of the       *)
(* DiversityOptimizer component) as a step machine.                        *)
(*                                                                         *)
(* Numbers: the code computes with JavaScript numbers.  The model computes *)
(* with exact rationals <<num, den>> in lowest terms (den > 0); a division *)
(* by zero yields <<s, 0>> (s = 1: Infinity, -1: -Infinity, 0: NaN).       *)
(* Arrays: the code's index i is the model's index i + 1.                  *)
(***************************************************************************)
EXTENDS Integers, Sequences, FiniteSets

\* Longest item list explored.
MaxLen == 3

\* Longest item list explored when two invocations run side by side.
MaxConcLen == 2

\* Most renders of the component explored.
MaxRenders == 2

\* Denominator of the grid of feasible weight vectors compared against.
GridDen == 4

VARIABLES items, alpha, pc, r, weights, active, anyNegative, result, iters,
          negSeen, renders, other

\* The variables of the observed invocation and of the component.
callVars == <<items, alpha, pc, r, weights, active, anyNegative, result, iters,
              negSeen, renders>>

vars == <<callVars, other>>

----------------------------------------------------------------------------
\* Exact arithmetic standing for the JavaScript number operators.

Abs(x) == IF x < 0 THEN -x ELSE x

Sgn(x) == IF x < 0 THEN -1 ELSE IF x > 0 THEN 1 ELSE 0

RECURSIVE GCD(_, _)
GCD(a, b) == IF b = 0 THEN a ELSE GCD(b, a % b)

Q(n, d) ==
    IF d = 0 THEN <<Sgn(n), 0>>
    ELSE LET g == GCD(Abs(n), Abs(d))
         IN  <<(Sgn(d) * n) \div g, Abs(d) \div g>>

Zero == Q(0, 1)

One == Q(1, 1)

Two == Q(2, 1)

QInt(k) == Q(k, 1)

IsNaN(x) == x = <<0, 0>>

\* Sums and products are formed over reduced terms to keep the integers small.
QAdd(x, y) ==
    IF x[2] = 0 THEN (IF y[2] = 0 /\ y[1] # x[1] THEN <<0, 0>> ELSE x)
    ELSE IF y[2] = 0 THEN y
    ELSE LET g == GCD(x[2], y[2])
         IN  Q(x[1] * (y[2] \div g) + y[1] * (x[2] \div g), (x[2] \div g) * y[2])

QNeg(x) == <<-x[1], x[2]>>

QSub(x, y) == QAdd(x, QNeg(y))

QMul(x, y) ==
    IF x[2] = 0 \/ y[2] = 0 THEN <<Sgn(x[1]) * Sgn(y[1]), 0>>
    ELSE LET g1 == GCD(Abs(x[1]), y[2])
             g2 == GCD(Abs(y[1]), x[2])
         IN  Q((x[1] \div g1) * (y[1] \div g2), (x[2] \div g2) * (y[2] \div g1))

QInv(y) ==
    IF y[1] = 0 THEN (IF y[2] = 0 THEN <<0, 0>> ELSE <<1, 0>>)
    ELSE IF y[2] = 0 THEN Q(0, 1)
    ELSE Q(y[2], y[1])

QDiv(x, y) == QMul(x, QInv(y))

QLt(x, y) ==
    /\ ~IsNaN(x) /\ ~IsNaN(y)
    /\ IF x[2] = 0 /\ y[2] = 0 THEN x[1] < y[1]
       ELSE LET g == GCD(x[2], y[2])
            IN  x[1] * (y[2] \div g) < y[1] * (x[2] \div g)

QLe(x, y) ==
    /\ ~IsNaN(x) /\ ~IsNaN(y)
    /\ IF x[2] = 0 /\ y[2] = 0 THEN x[1] <= y[1]
       ELSE LET g == GCD(x[2], y[2])
            IN  x[1] * (y[2] \div g) <= y[1] * (x[2] \div g)

Range(s) == {s[k] : k \in DOMAIN s}

----------------------------------------------------------------------------
\* Inputs explored.

\* The rows an item list is drawn from: equal sectors with different
\* performances, different sectors with equal performances, and the
\* performances -10, 0, 0.1, 0.2 and 2.2 (at alpha = 1/2 the pair 0.2, 2.2
\* and the triple 0.1, 0, 2.2 give a provisional weight of exactly 0).
Rows ==
    {[sector |-> "A", performance |-> Q(-10, 1)],
     [sector |-> "A", performance |-> Q(0, 1)],
     [sector |-> "A", performance |-> Q(1, 10)],
     [sector |-> "B", performance |-> Q(1, 10)],
     [sector |-> "B", performance |-> Q(2, 10)],
     [sector |-> "B", performance |-> Q(22, 10)]}

Alphas == {Q(-1, 2), Q(0, 1), Q(1, 4), Q(1, 2), Q(3, 4), Q(1, 1), Q(3, 2)}

\* The slider of the component: min = 0, max = 1.
SliderAlphas == {a \in Alphas : QLe(Zero, a) /\ QLe(a, One)}

ItemLists == UNION {[1..k -> Rows] : k \in 0..MaxLen}

----------------------------------------------------------------------------
\* The pieces of optimizePortfolio.

\* Which of the three paths the entry of the function takes.
\* Variant: the alpha === 1 test made before the emptiness test.
EntryBranchAlphaFirst(n, a) ==
    IF a = One THEN "special"
    ELSE IF n = 0 THEN "empty"
    ELSE "general"

\* Variant: no test for alpha === 1.
EntryBranchNoSpecial(n, a) ==
    IF n = 0 THEN "empty" ELSE "general"

\* Variant: every alpha >= 1 is treated as alpha = 1.
EntryBranchClamping(n, a) ==
    IF n = 0 THEN "empty"
    ELSE IF QLe(One, a) THEN "special"
    ELSE "general"

EntryBranch(n, a) ==
    IF n = 0 THEN "empty"
    ELSE IF a = One THEN "special"
    ELSE "general"

\* for (let i = 1; i < n; i++) if (items[i].performance > maxPerf) ...
\* i is the model index of the next item to look at.
\* Variant: ">=" in place of ">" (the last maximum wins).
RECURSIVE MaxScanLast(_, _, _, _)
MaxScanLast(its, i, maxIdx, maxPerf) ==
    IF i > Len(its) THEN maxIdx
    ELSE IF QLe(maxPerf, its[i].performance)
         THEN MaxScanLast(its, i + 1, i, its[i].performance)
         ELSE MaxScanLast(its, i + 1, maxIdx, maxPerf)

\* Variant: "<" in place of ">" (the scan finds the lowest performance).
RECURSIVE MaxScanMin(_, _, _, _)
MaxScanMin(its, i, maxIdx, maxPerf) ==
    IF i > Len(its) THEN maxIdx
    ELSE IF QLt(its[i].performance, maxPerf)
         THEN MaxScanMin(its, i + 1, i, its[i].performance)
         ELSE MaxScanMin(its, i + 1, maxIdx, maxPerf)

RECURSIVE MaxScan(_, _, _, _)
MaxScan(its, i, maxIdx, maxPerf) ==
    IF i > Len(its) THEN maxIdx
    ELSE IF QLt(maxPerf, its[i].performance)
         THEN MaxScan(its, i + 1, i, its[i].performance)
         ELSE MaxScan(its, i + 1, maxIdx, maxPerf)

MaxIdx(its) == MaxScan(its, 2, 1, its[1].performance)

\* Variant: only the entry of the best sector is returned.
SpecialOutputOnlyMax(its) ==
    LET maxIdx == MaxIdx(its)
    IN  <<[sector |-> its[maxIdx].sector,
           performance |-> its[maxIdx].performance,
           weight |-> One]>>

\* Variant: every item of maximal performance gets weight 1.
SpecialOutputAllMax(its) ==
    LET maxIdx == MaxIdx(its)
    IN  [i \in 1..Len(its) |->
            [sector |-> its[i].sector,
             performance |-> its[i].performance,
             weight |-> IF its[i].performance = its[maxIdx].performance
                        THEN One ELSE Zero]]

SpecialOutput(its) ==
    LET maxIdx == MaxIdx(its)
    IN  [i \in 1..Len(its) |->
            [sector |-> its[i].sector,
             performance |-> its[i].performance,
             weight |-> IF i = maxIdx THEN One ELSE Zero]]

\* active.reduce((acc, i) => acc + r[i], 0)
RECURSIVE SumOver(_, _)
SumOver(f, act) ==
    IF act = <<>> THEN Zero
    ELSE QAdd(SumOver(f, SubSeq(act, 1, Len(act) - 1)), f[act[Len(act)]])

\* Variant: the sign of the 2 * (1 - alpha) term flipped.
LambdaPlus(a, sumR, freeCount) ==
    QDiv(QAdd(QMul(a, sumR), QMul(Two, QSub(One, a))), QInt(freeCount))

\* Variant: sumR not scaled by alpha.
LambdaUnscaled(a, sumR, freeCount) ==
    QDiv(QSub(sumR, QMul(Two, QSub(One, a))), QInt(freeCount))

\* Variant: the factor 2 of the (1 - alpha) term left out.
LambdaNoTwo(a, sumR, freeCount) ==
    QDiv(QSub(QMul(a, sumR), QSub(One, a)), QInt(freeCount))

Lambda(a, sumR, freeCount) ==
    QDiv(QSub(QMul(a, sumR), QMul(Two, QSub(One, a))), QInt(freeCount))

\* Variant: r[i] not scaled by alpha.
StationaryWeightUnscaled(a, ri, lambda) ==
    QDiv(QSub(ri, lambda), QMul(Two, QSub(One, a)))

\* Variant: lambda added instead of subtracted.
StationaryWeightPlus(a, ri, lambda) ==
    QDiv(QAdd(QMul(a, ri), lambda), QMul(Two, QSub(One, a)))

\* Variant: the factor 2 of the denominator left out.
StationaryWeightNoTwo(a, ri, lambda) ==
    QDiv(QSub(QMul(a, ri), lambda), QSub(One, a))

\* Variant: the numerator negated.
StationaryWeightNegated(a, ri, lambda) ==
    QDiv(QSub(lambda, QMul(a, ri)), QMul(Two, QSub(One, a)))

\* Variant: r[i] scaled by 1 - alpha instead of alpha.
StationaryWeightComplement(a, ri, lambda) ==
    QDiv(QSub(QMul(QSub(One, a), ri), lambda), QMul(Two, QSub(One, a)))

StationaryWeight(a, ri, lambda) ==
    QDiv(QSub(QMul(a, ri), lambda), QMul(Two, QSub(One, a)))

\* Variant: sumR taken over all indices, not over the active set.
ProvisionalWeightsAllR(w, rr, act, a) ==
    LET lambda == Lambda(a, SumOver(rr, [i \in DOMAIN rr |-> i]), Len(act))
    IN  [i \in DOMAIN w |->
            IF i \in Range(act) THEN StationaryWeight(a, rr[i], lambda) ELSE w[i]]

\* Variant: the magnitude of alpha is used.
ProvisionalWeightsAbs(w, rr, act, a) ==
    LET b == IF QLt(a, Zero) THEN QNeg(a) ELSE a
        lambda == Lambda(b, SumOver(rr, act), Len(act))
    IN  [i \in DOMAIN w |->
            IF i \in Range(act) THEN StationaryWeight(b, rr[i], lambda) ELSE w[i]]

\* Variant: the stationary weight is written at every index, active or not.
ProvisionalWeightsEveryIndex(w, rr, act, a) ==
    LET lambda == Lambda(a, SumOver(rr, act), Len(act))
    IN  [i \in DOMAIN w |-> StationaryWeight(a, rr[i], lambda)]

ProvisionalWeights(w, rr, act, a) ==
    LET lambda == Lambda(a, SumOver(rr, act), Len(act))
    IN  [i \in DOMAIN w |->
            IF i \in Range(act) THEN StationaryWeight(a, rr[i], lambda) ELSE w[i]]

NegativeIn(w, act) == {i \in Range(act) : QLt(w[i], Zero)}

\* Variant: division by the number of active indices instead of sumW.
NormalizedWeightsByCount(w, act) ==
    [i \in DOMAIN w |->
        IF i \in Range(act) THEN QDiv(w[i], QInt(Len(act))) ELSE w[i]]

\* Variant: the uniform fallback taken whatever sumW is.
NormalizedWeightsUniform(w, act) ==
    [i \in DOMAIN w |->
        IF i \in Range(act) THEN QDiv(One, QInt(Len(act))) ELSE w[i]]

NormalizedWeights(w, act) ==
    LET sumW == SumOver(w, act)
    IN  [i \in DOMAIN w |->
            IF i \in Range(act)
            THEN IF QLe(sumW, Zero) THEN QDiv(One, QInt(Len(act)))
                 ELSE QDiv(w[i], sumW)
            ELSE w[i]]

\* Variant: no weight fails the test.
KeepsIndexAlways(w, i) == TRUE

KeepsIndex(w, i) == QLt(Zero, w[i])

\* Variant: no index is dropped.
NewActiveUnfiltered(w, act) == act

NewActive(w, act) == SelectSeq(act, LAMBDA i : KeepsIndex(w, i))

\* Variant: the weight of a dropped index is not reset.
ShrunkWeightsKeep(w, act) == w

ShrunkWeights(w, act) ==
    [i \in DOMAIN w |->
        IF i \in Range(act) /\ ~KeepsIndex(w, i) THEN Zero ELSE w[i]]

\* Variant: entries of weight 0 are left out of the returned list.
OutputDropsZero(its, w) ==
    SelectSeq([i \in 1..Len(its) |->
                  [sector |-> its[i].sector,
                   performance |-> its[i].performance,
                   weight |-> w[i]]],
              LAMBDA x : x.weight # Zero)

\* Variant: the weights are attached to the items in reverse order.
OutputReversed(its, w) ==
    [i \in 1..Len(its) |->
        [sector |-> its[i].sector,
         performance |-> its[i].performance,
         weight |-> w[Len(its) + 1 - i]]]

Output(its, w) ==
    [i \in 1..Len(its) |->
        [sector |-> its[i].sector,
         performance |-> its[i].performance,
         weight |-> w[i]]]

----------------------------------------------------------------------------
\* The function as one operator, iterating the same pieces.

RECURSIVE ActiveSetLoop(_, _, _, _)
ActiveSetLoop(rr, a, w, act) ==
    IF Len(act) = 0 THEN w
    ELSE LET pw == ProvisionalWeights(w, rr, act, a)
         IN  IF NegativeIn(pw, act) = {} THEN NormalizedWeights(pw, act)
             ELSE LET newActive == NewActive(pw, act)
                      sw == ShrunkWeights(pw, act)
                  IN  IF Len(newActive) = Len(act) THEN sw
                      ELSE ActiveSetLoop(rr, a, sw, newActive)

OptimizePortfolio(its, a) ==
    LET n == Len(its)
    IN  IF EntryBranch(n, a) = "empty" THEN <<>>
        ELSE IF EntryBranch(n, a) = "special" THEN SpecialOutput(its)
        ELSE Output(its,
                    ActiveSetLoop([i \in 1..n |-> its[i].performance], a,
                                  [i \in 1..n |-> Zero], [i \in 1..n |-> i]))

----------------------------------------------------------------------------
\* A second invocation of optimizePortfolio, its arguments and locals held
\* in one record, advanced by the same steps as the observed invocation.

IdleCall ==
    [items |-> <<>>, alpha |-> Zero, pc |-> "idle", r |-> <<>>,
     weights |-> <<>>, active |-> <<>>, anyNegative |-> FALSE, result |-> <<>>]

NewCall(its, a) == [IdleCall EXCEPT !.items = its, !.alpha = a, !.pc = "entry"]

StepOf(c) ==
    LET n == Len(c.items)
    IN  CASE c.pc = "entry" ->
                 IF EntryBranch(n, c.alpha) = "empty"
                 THEN [c EXCEPT !.result = <<>>, !.pc = "done"]
                 ELSE IF EntryBranch(n, c.alpha) = "special"
                 THEN IF n = 0 THEN [c EXCEPT !.pc = "error"]
                      ELSE [c EXCEPT !.result = SpecialOutput(c.items), !.pc = "done"]
                 ELSE [c EXCEPT !.r = [i \in 1..n |-> c.items[i].performance],
                                !.weights = [i \in 1..n |-> Zero],
                                !.active = [i \in 1..n |-> i],
                                !.pc = "loop"]
          [] c.pc = "loop" ->
                 IF Len(c.active) = 0 THEN [c EXCEPT !.pc = "exit"]
                 ELSE LET pw == ProvisionalWeights(c.weights, c.r, c.active, c.alpha)
                      IN  [c EXCEPT !.weights = pw,
                                    !.anyNegative = (NegativeIn(pw, c.active) # {}),
                                    !.pc = "computed"]
          [] c.pc = "computed" ->
                 IF ~c.anyNegative
                 THEN [c EXCEPT !.weights = NormalizedWeights(c.weights, c.active),
                                !.pc = "exit"]
                 ELSE LET newActive == NewActive(c.weights, c.active)
                      IN  IF Len(newActive) = Len(c.active)
                          THEN [c EXCEPT !.weights = ShrunkWeights(c.weights, c.active),
                                         !.pc = "exit"]
                          ELSE [c EXCEPT !.weights = ShrunkWeights(c.weights, c.active),
                                         !.active = newActive,
                                         !.pc = "loop"]
          [] c.pc = "exit" ->
                 [c EXCEPT !.result = Output(c.items, c.weights), !.pc = "done"]
          [] OTHER -> c

----------------------------------------------------------------------------
\* The step machine.

Init ==
    /\ items \in ItemLists
    /\ alpha \in Alphas
    /\ pc = "entry"
    /\ r = <<>>
    /\ weights = <<>>
    /\ active = <<>>
    /\ anyNegative = FALSE
    /\ result = <<>>
    /\ iters = 0
    /\ negSeen = {}
    /\ renders = 1
    /\ other = IdleCall

\* if (n === 0) return [];
ReturnEmpty ==
    /\ pc = "entry"
    /\ EntryBranch(Len(items), alpha) = "empty"
    /\ result' = <<>>
    /\ pc' = "done"
    /\ UNCHANGED <<items, alpha, r, weights, active, anyNegative, iters, negSeen, renders, other>>

\* if (alpha === 1) { ... return items.map(...) }
\* Reading items[0].performance of an empty list throws a TypeError.
SpecialCase ==
    /\ pc = "entry"
    /\ EntryBranch(Len(items), alpha) = "special"
    /\ IF Len(items) = 0
       THEN pc' = "error" /\ UNCHANGED result
       ELSE pc' = "done" /\ result' = SpecialOutput(items)
    /\ UNCHANGED <<items, alpha, r, weights, active, anyNegative, iters, negSeen, renders, other>>

\* Variant: the item list is reversed in place before it is read.
EnterLoopReversing ==
    /\ pc = "entry"
    /\ EntryBranch(Len(items), alpha) = "general"
    /\ items' = [i \in 1..Len(items) |-> items[Len(items) + 1 - i]]
    /\ r' = [i \in 1..Len(items) |-> items'[i].performance]
    /\ weights' = [i \in 1..Len(items) |-> Zero]
    /\ active' = [i \in 1..Len(items) |-> i]
    /\ pc' = "loop"
    /\ UNCHANGED <<alpha, anyNegative, result, iters, negSeen, renders, other>>

\* const r = ...; let weights = ...; let active = ...;
EnterLoop ==
    /\ pc = "entry"
    /\ EntryBranch(Len(items), alpha) = "general"
    /\ r' = [i \in 1..Len(items) |-> items[i].performance]
    /\ weights' = [i \in 1..Len(items) |-> Zero]
    /\ active' = [i \in 1..Len(items) |-> i]
    /\ pc' = "loop"
    /\ UNCHANGED <<items, alpha, anyNegative, result, iters, negSeen, renders, other>>

\* Head of the loop body up to the end of the provisional-weight loop.
Compute ==
    /\ pc = "loop"
    /\ iters' = iters + 1
    /\ IF Len(active) = 0
       THEN /\ pc' = "exit"
            /\ UNCHANGED <<weights, anyNegative, negSeen>>
       ELSE LET pw == ProvisionalWeights(weights, r, active, alpha)
            IN  /\ weights' = pw
                /\ anyNegative' = (NegativeIn(pw, active) # {})
                /\ negSeen' = negSeen \cup NegativeIn(pw, active)
                /\ pc' = "computed"
    /\ UNCHANGED <<items, alpha, r, active, result, renders, other>>

\* if (!anyNegative) { ... break; }
Normalize ==
    /\ pc = "computed"
    /\ ~anyNegative
    /\ weights' = NormalizedWeights(weights, active)
    /\ pc' = "exit"
    /\ UNCHANGED <<items, alpha, r, active, anyNegative, result, iters, negSeen, renders, other>>

\* const newActive = ...; if (newActive.length === active.length) break;
Shrink ==
    /\ pc = "computed"
    /\ anyNegative
    /\ weights' = ShrunkWeights(weights, active)
    /\ LET newActive == NewActive(weights, active)
       IN  IF Len(newActive) = Len(active)
           THEN pc' = "exit" /\ UNCHANGED active
           ELSE pc' = "loop" /\ active' = newActive
    /\ UNCHANGED <<items, alpha, r, anyNegative, result, iters, negSeen, renders, other>>

\* return items.map(...)
Return ==
    /\ pc = "exit"
    /\ result' = Output(items, weights)
    /\ pc' = "done"
    /\ UNCHANGED <<items, alpha, r, weights, active, anyNegative, iters, negSeen, renders, other>>

\* Variant: the component keeps the list computed for the previous alpha.
SetAlphaStaleMemo ==
    /\ pc = "done"
    /\ renders < MaxRenders
    /\ renders' = renders + 1
    /\ alpha' \in SliderAlphas
    /\ UNCHANGED <<items, pc, r, weights, active, anyNegative, result, iters,
                   negSeen, other>>

\* The slider's onChange: setAlpha, and the component calls
\* optimizePortfolio(rows, alpha) again with fresh locals.
SetAlpha ==
    /\ pc = "done"
    /\ renders < MaxRenders
    /\ renders' = renders + 1
    /\ alpha' \in SliderAlphas
    /\ pc' = "entry"
    /\ r' = <<>>
    /\ weights' = <<>>
    /\ active' = <<>>
    /\ anyNegative' = FALSE
    /\ result' = <<>>
    /\ iters' = 0
    /\ negSeen' = {}
    /\ UNCHANGED <<items, other>>

Next ==
    \/ ReturnEmpty
    \/ SpecialCase
    \/ EnterLoop
    \/ Compute
    \/ Normalize
    \/ Shrink
    \/ Return
    \/ SetAlpha

Spec == Init /\ [][Next]_vars

\* The positions at which the invocation has a next step, and all positions.
Running == {"entry", "loop", "computed", "exit"}

PcValues == Running \cup {"done", "error"}

\* The invocation moves on.  At every position of Running exactly one of
\* ReturnEmpty, SpecialCase, EnterLoop, Compute, Normalize, Shrink and Return
\* is enabled and each of them changes pc, while SetAlpha starts outside
\* Running: the steps of Next that are Advance steps changing pc are the
\* steps of the function, and such a step is enabled exactly where one of
\* them is.
Advance == pc \in Running /\ pc' \in PcValues

\* The function is synchronous: once called, its next step is always taken.
FairSpec == Spec /\ WF_pc(Advance)

\* Variant: the anyNegative flag is one variable shared by both invocations.
OtherStepSharedFlag ==
    /\ other.pc \in {"entry", "loop", "computed", "exit"}
    /\ LET c == StepOf([other EXCEPT !.anyNegative = anyNegative])
       IN  other' = c /\ anyNegative' = c.anyNegative
    /\ UNCHANGED <<items, alpha, pc, r, weights, active, result, iters,
                   negSeen, renders>>

\* One step of the second invocation.
OtherStep ==
    /\ other.pc \in {"entry", "loop", "computed", "exit"}
    /\ other' = StepOf(other)
    /\ UNCHANGED callVars

\* The inputs explored with two invocations.
ConcRows ==
    {[sector |-> "A", performance |-> Q(-10, 1)],
     [sector |-> "B", performance |-> Q(2, 10)]}

ConcAlphas == {Q(1, 2), Q(1, 1)}

ConcLists == UNION {[1..k -> ConcRows] : k \in 0..MaxConcLen}

ConcInit ==
    /\ items \in ConcLists
    /\ alpha \in ConcAlphas
    /\ pc = "entry"
    /\ r = <<>>
    /\ weights = <<>>
    /\ active = <<>>
    /\ anyNegative = FALSE
    /\ result = <<>>
    /\ iters = 0
    /\ negSeen = {}
    /\ renders = 1
    /\ \E its \in ConcLists, a \in ConcAlphas : other = NewCall(its, a)

ConcNext == Next \/ OtherStep

ConcSpec == ConcInit /\ [][ConcNext]_vars

----------------------------------------------------------------------------
\* Vocabulary of the properties.

N == Len(items)

InUnit(a) == QLe(Zero, a) /\ QLe(a, One)

Returned == pc = "done"

TypeOK ==
    /\ pc \in {"entry", "loop", "computed", "exit", "done", "error"}
    /\ items \in ItemLists
    /\ alpha \in Alphas
    /\ other.pc \in {"idle", "entry", "loop", "computed", "exit", "done", "error"}

\* The step machine and the operator agree on the returned list.
StepsMatchOperator == Returned => result = OptimizePortfolio(items, alpha)

----------------------------------------------------------------------------
\* Properties of the returned list.

Indices == 1..N

AllIndices == [i \in 1..N |-> i]

Perf(i) == items[i].performance

Weight(i) == result[i].weight

ResultWeights == [i \in 1..Len(result) |-> result[i].weight]

\* The smallest index whose performance is the maximum over all items.
FirstMax ==
    CHOOSE i \in Indices :
        /\ \A j \in Indices : QLe(Perf(j), Perf(i))
        /\ \A j \in Indices : j < i => QLt(Perf(j), Perf(i))

\* C1: for a non-empty item list and alpha in [0,1] the returned weights
\* sum to exactly 1, in the alpha = 1 branch and in the active-set branch.
C1_SumToOne ==
    (Returned /\ N >= 1 /\ InUnit(alpha))
        => /\ Len(result) = N
           /\ SumOver(ResultWeights, AllIndices) = One

\* Reached: a run of the active-set branch that dropped an index and then
\* normalized, next to which the alpha = 1 branch is covered by C4's witness.
C1_Witness ==
    /\ Returned /\ N >= 2 /\ InUnit(alpha) /\ alpha # One
    /\ iters >= 2 /\ negSeen # {}
    /\ SumOver(ResultWeights, AllIndices) = One

\* C2: for alpha in [0,1] every returned weight lies in [0,1]; a negative
\* provisional weight never survives into the returned list.
C2_WeightsInUnit ==
    (Returned /\ InUnit(alpha))
        => \A i \in 1..Len(result) : InUnit(Weight(i))

\* Reached: a returned list after an iteration that wrote a negative weight.
C2_Witness ==
    /\ Returned /\ InUnit(alpha) /\ negSeen # {}
    /\ \A i \in negSeen : Weight(i) = Zero
    /\ \E i \in Indices : QLt(Zero, Weight(i)) /\ QLt(Weight(i), One)

\* alpha * sum(r_i * w_i) - (1 - alpha) * sum(w_i^2)
Objective(w) ==
    QSub(QMul(alpha, SumOver([i \in Indices |-> QMul(Perf(i), w[i])], AllIndices)),
         QMul(QSub(One, alpha),
              SumOver([i \in Indices |-> QMul(w[i], w[i])], AllIndices)))

RECURSIVE IntSum(_, _)
IntSum(u, k) == IF k = 0 THEN 0 ELSE IntSum(u, k - 1) + u[k]

\* The feasible weight vectors whose entries are multiples of 1 / GridDen.
GridVectors ==
    {[i \in Indices |-> Q(u[i], GridDen)] :
        u \in {v \in [Indices -> 0..GridDen] : IntSum(v, N) = GridDen}}

\* alpha * r_i - 2 * (1 - alpha) * w_i
Multiplier(i) ==
    QSub(QMul(alpha, Perf(i)), QMul(QMul(Two, QSub(One, alpha)), Weight(i)))

\* C3: for 0 <= alpha < 1 the returned weights are feasible and satisfy the
\* KKT conditions of the quadratic program (one multiplier mu on the support,
\* alpha * r_i <= mu off the support), and no feasible vector of the grid has
\* a strictly greater objective value.
C3_Optimal ==
    (Returned /\ N >= 1 /\ InUnit(alpha) /\ alpha # One)
        => /\ \A i \in Indices : QLe(Zero, Weight(i))
           /\ SumOver(ResultWeights, AllIndices) = One
           /\ \A i, j \in Indices :
                  QLt(Zero, Weight(i)) =>
                      IF QLt(Zero, Weight(j))
                      THEN Multiplier(i) = Multiplier(j)
                      ELSE QLe(QMul(alpha, Perf(j)), Multiplier(i))
           /\ LET best == Objective(ResultWeights)
              IN  \A v \in GridVectors : QLe(Objective(v), best)

\* Reached: an optimum on the boundary (a zero weight) with unequal positive
\* weights, found after at least one shrink.
C3_Witness ==
    /\ Returned /\ N >= 3 /\ InUnit(alpha) /\ alpha # One /\ alpha # Zero
    /\ \E i \in Indices : Weight(i) = Zero
    /\ \E i, j \in Indices :
           QLt(Zero, Weight(i)) /\ QLt(Weight(i), Weight(j))

\* C4: at alpha = 1 with a non-empty list, weight 1 goes to the first index
\* of maximal performance and 0 to every other, and the loop is not run.
C4_SpecialCase ==
    (Returned /\ N >= 1 /\ alpha = One)
        => /\ Len(result) = N
           /\ \A i \in Indices : Weight(i) = IF i = FirstMax THEN One ELSE Zero
           /\ iters = 0 /\ weights = <<>> /\ active = <<>>

\* Reached: alpha = 1 with a tie for the maximum that is not at the front.
C4_Witness ==
    /\ Returned /\ alpha = One /\ N >= 3
    /\ FirstMax > 1
    /\ \E j \in Indices : j > FirstMax /\ Perf(j) = Perf(FirstMax)
    /\ Weight(FirstMax) = One

\* C5: the returned list has the length of the input, and entry i carries
\* the sector and the performance of input entry i, for every alpha.
C5_OrderPreserved ==
    Returned
        => /\ Len(result) = N
           /\ \A i \in Indices :
                  /\ result[i].sector = items[i].sector
                  /\ result[i].performance = items[i].performance

\* Reached: equal sectors and distinct sectors in one list, with an index
\* dropped from the active set.
C5_Witness ==
    /\ Returned /\ N >= 3 /\ negSeen # {}
    /\ \E i, j \in Indices : i # j /\ items[i].sector = items[j].sector
    /\ \E i, j \in Indices : items[i].sector # items[j].sector
    /\ \A i \in Indices : result[i].sector = items[i].sector

\* The weight optimizePortfolio gives index i of the current items at a.
WeightAt(a, i) == OptimizePortfolio(items, a)[i].weight

\* C6: for alpha1 <= alpha2 in [0,1] the weight of the highest-return item
\* (first index of maximal performance) at alpha2 is at least its weight at
\* alpha1; alpha2 is the alpha of the returned call, alpha1 any smaller one.
C6_MonotoneConcentration ==
    (Returned /\ N >= 1 /\ InUnit(alpha))
        => \A a1 \in SliderAlphas :
               QLe(a1, alpha) => QLe(WeightAt(a1, FirstMax), Weight(FirstMax))

\* Reached: the weight of the highest-return item strictly grows from
\* alpha = 1/4 to alpha = 3/4 and again to alpha = 1.
C6_Witness ==
    /\ Returned /\ N >= 2 /\ alpha = Q(3, 4)
    /\ QLt(WeightAt(Q(1, 4), FirstMax), Weight(FirstMax))
    /\ QLt(Weight(FirstMax), WeightAt(One, FirstMax))

\* The spec's crafted shape: one item at -10 among several at 0.1 or 0.2.
Crafted ==
    /\ N >= 3
    /\ Cardinality({i \in Indices : Perf(i) = Q(-10, 1)}) = 1
    /\ \A i \in Indices : Perf(i) \in {Q(-10, 1), Q(1, 10), Q(2, 10)}

C8_UniformAtZero ==
    (Returned /\ N >= 1 /\ alpha = Zero
        /\ \A i, j \in Indices : Perf(i) = Perf(j))
        => \A i \in Indices : Weight(i) = Q(1, N)

\* Reached: three items all at 0.10, alpha = 0, weights 1/3 each.
C8_Witness ==
    /\ Returned /\ alpha = Zero /\ N = 3
    /\ \A i \in Indices : Perf(i) = Q(1, 10)
    /\ \A i \in Indices : Weight(i) = Q(1, 3)

\* C9: a list of one item returns one entry of weight 1, whatever its
\* performance and alpha; for alpha # 1 after exactly one loop iteration.
C9_SingleItem ==
    (Returned /\ N = 1)
        => /\ Len(result) = 1
           /\ Weight(1) = One
           /\ iters = IF alpha = One THEN 0 ELSE 1

\* Reached: one item of negative performance through the active-set loop.
C9_Witness ==
    /\ Returned /\ N = 1 /\ alpha # One /\ InUnit(alpha)
    /\ QLt(Perf(1), Zero)
    /\ iters = 1 /\ Weight(1) = One

\* C10: an empty list returns an empty list for every alpha, alpha = 1
\* included: the emptiness test comes first, no error is raised and neither
\* the special case nor the loop is run.
C10_EmptyInput ==
    (N = 0)
        => /\ pc # "error"
           /\ pc \in {"entry", "done"}
           /\ Returned => (result = <<>> /\ iters = 0)

\* Reached: the empty list returned at alpha = 1.
C10_Witness ==
    /\ Returned /\ N = 0 /\ alpha = One /\ result = <<>>

----------------------------------------------------------------------------
\* Properties of the run of the loop.

IsFinite(x) == x[2] # 0

\* alpha in [0,1)
InGeneralRange(a) == QLe(Zero, a) /\ QLt(a, One)

\* C11: for n >= 1 and alpha in [0,1) the loop body is executed at most n
\* times (each pass through the loop head leaves at most n - iters active
\* indices), and the loop, once entered, reaches its exit.
C11_TerminatesWithinN ==
    /\ []((N >= 1 /\ InGeneralRange(alpha))
            => /\ iters <= N
               /\ pc = "loop" => (Len(active) >= 1 /\ iters + Len(active) <= N))
    /\ ((pc = "loop" /\ InGeneralRange(alpha)) ~> (pc = "exit"))

\* Reached: a run that needed as many iterations as there are items.
C11_Witness ==
    /\ pc = "exit" /\ N >= 2 /\ InGeneralRange(alpha)
    /\ iters = N

\* C12: for alpha in [0,1] the call never ends in an error, the returned
\* list is never partially filled (one entry with a finite weight per item),
\* and every call reaches its return.
C12_Total ==
    /\ [](InUnit(alpha)
            => /\ pc # "error"
               /\ Len(result) \in {0, N}
               /\ Returned => /\ Len(result) = N
                              /\ \A i \in Indices : IsFinite(Weight(i)))
    /\ ((pc = "entry" /\ InUnit(alpha)) ~> Returned)

\* Reached: a returned list for an input with a repeated row, a negative
\* and a zero performance.
C12_Witness ==
    /\ Returned /\ InUnit(alpha) /\ N >= 3
    /\ \E i, j \in Indices : i # j /\ items[i] = items[j]
    /\ \E i \in Indices : QLt(Perf(i), Zero)
    /\ \E i \in Indices : Perf(i) = Zero
    /\ Len(result) = N

\* C13: a call leaves the caller's item list unchanged at every step.
C13_InputUnchanged == [][items' = items]_vars

\* Reached: a returned call over a list that is not its own reverse, after
\* the locals r, weights and active were written in two iterations.
C13_Witness ==
    /\ Returned /\ N >= 2 /\ iters >= 2
    /\ items[1] # items[N]
    /\ r = [i \in Indices |-> Perf(i)]
    /\ Len(active) < N

\* C14: two calls with equal item lists and equal alpha return equal lists,
\* whatever calls the component made before the one and while the other ran.
C14_Deterministic ==
    (Returned /\ other.pc = "done" /\ items = other.items /\ alpha = other.alpha)
        => result = other.result

\* Reached: the component's second call and the other call returned on the
\* same inputs, through the loop with an index dropped.
C14_Witness ==
    /\ Returned /\ other.pc = "done" /\ renders >= 2
    /\ items = other.items /\ alpha = other.alpha
    /\ N >= 2 /\ negSeen # {}
    /\ result = other.result

\* C15: with the steps of two invocations interleaved, each returns what
\* it returns when run alone.
C15_Interleaved ==
    /\ Returned => result = OptimizePortfolio(items, alpha)
    /\ other.pc = "done" => other.result = OptimizePortfolio(other.items, other.alpha)

\* Reached: both invocations in the middle of an iteration on different
\* inputs, one with a negative provisional weight and one without.
C15_Witness ==
    /\ pc = "computed" /\ other.pc = "computed"
    /\ items # other.items
    /\ anyNegative /\ ~other.anyNegative

\* C16: control is in the loop only with alpha # 1, so the division by
\* 2 * (1 - alpha) never divides by zero and every weight written is finite.
C16_NoDivisionByZero ==
    (pc \in {"loop", "computed", "exit"})
        => /\ alpha # One
           /\ QSub(One, alpha) # Zero
           /\ \A i \in DOMAIN weights : IsFinite(weights[i])

\* Reached: provisional weights just computed, at an alpha next to 1.
C16_Witness ==
    /\ pc = "computed" /\ N >= 2 /\ alpha = Q(3, 4)
    /\ \A i \in DOMAIN weights : IsFinite(weights[i])
    /\ \E i \in DOMAIN weights : weights[i] # Zero

\* C17: in an iteration with a negative provisional weight the next active
\* set is the current one minus exactly the indices of negative weight (an
\* index of weight exactly 0 stays), and exactly those weights are set to 0.
C17_DropsExactlyNegative ==
    [][(pc = "computed" /\ NegativeIn(weights, active) # {})
          => /\ Range(active') = Range(active) \ NegativeIn(weights, active)
             /\ \A i \in DOMAIN weights :
                    weights'[i] = IF i \in NegativeIn(weights, active)
                                  THEN Zero ELSE weights[i]]_vars

RECURSIVE SumOfSet(_, _)
SumOfSet(f, S) ==
    IF S = {} THEN Zero
    ELSE LET i == CHOOSE j \in S : TRUE
         IN  QAdd(f[i], SumOfSet(f, S \ {i}))

\* C18: after the provisional weights are written, each active index i has
\* weight (alpha * r_i - lambda) / (2 * (1 - alpha)) with
\* lambda = (alpha * sumR - 2 * (1 - alpha)) / |active| and sumR the sum of
\* the performances of the active indices only; stated with the divisions
\* multiplied out.
C18_StationaryFormula ==
    (pc = "computed")
        => LET k == QInt(Len(active))
               sumR == SumOfSet(r, Range(active))
               c == QMul(Two, QSub(One, alpha))
           IN  \A i \in Range(active) :
                   QMul(QMul(weights[i], c), k)
                       = QAdd(QMul(alpha, QSub(QMul(k, r[i]), sumR)), c)

\* Reached: an iteration over a shrunk active set of at least two indices.
C18_Witness ==
    /\ pc = "computed" /\ iters >= 2
    /\ Len(active) >= 2 /\ Len(active) < N
    /\ \E i \in Indices : i \notin Range(active) /\ r[i] # Zero

\* C19: in the iteration where every active provisional weight is >= 0 the
\* loop stops; every active index gets 1 / |active| if the sum of those
\* weights is <= 0 and its weight divided by the sum otherwise, and every
\* inactive index has weight 0.
C19_Normalization ==
    [][(pc = "computed" /\ NegativeIn(weights, active) = {})
          => LET sumW == SumOfSet(weights, Range(active))
             IN  /\ pc' = "exit"
                 /\ \A i \in DOMAIN weights :
                        weights'[i] =
                            IF i \notin Range(active) THEN Zero
                            ELSE IF QLe(sumW, Zero) THEN Q(1, Len(active))
                            ELSE QDiv(weights[i], sumW)]_vars

\* Reached: the loop stopped by normalization with unequal active weights
\* and an inactive index.
C19_Witness ==
    /\ pc = "exit" /\ ~anyNegative
    /\ Len(active) >= 2 /\ Len(active) < N
    /\ \E i, j \in Range(active) : weights[i] # weights[j]
    /\ \A i \in Indices : i \notin Range(active) => weights[i] = Zero

\* C20: for n >= 1 and alpha in [0,1) the active set is not empty at the
\* head of the loop, and the loop never ends with all weights 0.
C20_ActiveNeverEmpty ==
    (N >= 1 /\ InGeneralRange(alpha))
        => /\ pc = "loop" => Len(active) >= 1
           /\ pc = "exit" => \E i \in Indices : weights[i] # Zero

\* Reached: the head of the loop with a single index left of three or more.
C20_Witness ==
    /\ pc = "loop" /\ N >= 3 /\ InGeneralRange(alpha)
    /\ iters >= 1 /\ Len(active) = 1

----------------------------------------------------------------------------
\* Properties of the active set over the iterations, and of the weights as
\* functions of the performances and of alpha.

InLoop == pc \in {"loop", "computed", "exit"}

\* The indices no longer in the active set.
Removed == Indices \ Range(active)

\* C21: the loop starts with all n indices active and all weights 0; from
\* one step of a call to the next the active set never gains an index, and
\* an index outside it has weight 0 until and in the returned list.
C21_ActiveOnlyShrinks ==
    /\ [][/\ ((pc = "entry" /\ pc' = "loop")
                => (/\ active' = AllIndices
                    /\ weights' = [i \in Indices |-> Zero]))
           /\ (InLoop
                => (/\ Range(active') \subseteq Range(active)
                    /\ \A i \in Removed : weights'[i] = Zero))]_vars
    /\ [](/\ (InLoop => \A i \in Removed : weights[i] = Zero)
          /\ ((Returned /\ iters >= 1) => \A i \in Removed : Weight(i) = Zero))

\* Reached: a returned call that removed one index in each of two
\* iterations and stopped with a single active index.
C21_Witness ==
    /\ Returned /\ N >= 3 /\ iters >= 3
    /\ Len(active) = N - 2
    /\ \A i \in Removed : Weight(i) = Zero

\* alpha < 0 or alpha > 1
OutOfRange(a) == QLt(a, Zero) \/ QLt(One, a)

\* The returned list is the one built from the weights of the loop.
ThroughLoop == iters >= 1 /\ result = Output(items, weights)

\* C22, as stated: an alpha outside [0,1] takes the active-set branch
\* unchanged, and for some alpha > 1 and some item list a returned weight
\* lies outside [0,1].
C22_OutOfRangeEscapes ==
    /\ (Returned /\ N >= 1 /\ OutOfRange(alpha)) => ThroughLoop
    /\ \E a \in Alphas :
           /\ QLt(One, a)
           /\ \E its \in ItemLists :
                  \E i \in 1..Len(its) :
                      ~InUnit(OptimizePortfolio(its, a)[i].weight)

\* C22, amended: an alpha outside [0,1] takes the active-set branch and is
\* used as given in lambda and in the stationary weights (which can be
\* negative), but every returned weight lies in [0,1] and the returned
\* weights sum to 1, for alpha > 1 as for alpha < 0.
C22_OutOfRangeStaysInUnit ==
    (N >= 1 /\ OutOfRange(alpha))
        => /\ pc # "error"
           /\ (pc = "computed")
                => \A i \in Range(active) :
                       weights[i] =
                           StationaryWeight(alpha, r[i],
                               Lambda(alpha, SumOver(r, active), Len(active)))
           /\ Returned
                => /\ ThroughLoop
                   /\ \A i \in Indices : InUnit(Weight(i))
                   /\ SumOver(ResultWeights, AllIndices) = One

\* Reached: a call at alpha = 3/2 that wrote a negative provisional weight
\* and returned two unequal weights strictly between 0 and 1.
C22_Witness ==
    /\ Returned /\ QLt(One, alpha) /\ N >= 3 /\ negSeen # {}
    /\ \E i, j \in Indices :
           /\ QLt(Zero, Weight(i)) /\ QLt(Weight(i), Weight(j))
           /\ QLt(Weight(j), One)

\* C23: in every iteration the provisional weights of the active indices
\* sum to exactly 1; in the stopping iteration sumW is therefore 1, not
\* <= 0, and the normalization leaves every weight as it is.
C23_ProvisionalSumOne ==
    /\ []((pc = "computed") => SumOver(weights, active) = One)
    /\ [][(pc = "computed" /\ ~anyNegative)
             => /\ ~QLe(SumOver(weights, active), Zero)
                /\ pc' = "exit"
                /\ weights' = weights]_vars

\* Reached: a stopping iteration over a shrunk active set with unequal
\* provisional weights, about to be normalized.
C23_Witness ==
    /\ pc = "computed" /\ ~anyNegative /\ iters >= 2
    /\ Len(active) >= 2
    /\ \E i, j \in Range(active) : QLt(weights[i], weights[j])
    /\ SumOver(weights, active) = One

\* C24: whenever the shrink step is reached an active index has a negative
\* weight and the active set gets strictly smaller, so the loop goes on
\* (the equal-length guard does not stop it); the loop is left only by the
\* normalization branch, with every active weight >= 0.
C24_SameLengthGuardDead ==
    [][/\ ((pc = "computed" /\ anyNegative)
             => (/\ NegativeIn(weights, active) # {}
                 /\ Len(active') < Len(active)
                 /\ pc' = "loop"))
       /\ ((InLoop /\ pc' = "exit")
             => (/\ pc = "computed" /\ ~anyNegative
                 /\ \A i \in Range(active) : QLe(Zero, weights'[i])))]_vars

\* Reached: the head of the second iteration after one shrink step that
\* dropped two indices at once.
C24_Witness ==
    /\ pc = "loop" /\ iters = 1 /\ N >= 3
    /\ Len(active) = N - 2

\* C25: for 0 <= alpha < 1 the returned weights follow the order of the
\* performances: a performance at least as high gets a weight at least as
\* high, equal performances get equal weights, and the item of highest
\* performance gets at least 1/n.
C25_OrderFollowsReturns ==
    (Returned /\ N >= 1 /\ InGeneralRange(alpha))
        => /\ \A i, j \in Indices :
                  QLe(Perf(j), Perf(i)) => QLe(Weight(j), Weight(i))
           /\ \A i, j \in Indices :
                  Perf(i) = Perf(j) => Weight(i) = Weight(j)
           /\ QLe(Q(1, N), Weight(FirstMax))

\* Reached: the same row twice with one positive weight, below the weight
\* of a third item of higher performance.
C25_Witness ==
    /\ Returned /\ N >= 3 /\ InGeneralRange(alpha) /\ alpha # Zero
    /\ \E i, j, k \in Indices :
           /\ i # j /\ items[i] = items[j]
           /\ QLt(Zero, Weight(i)) /\ Weight(i) = Weight(j)
           /\ QLt(Perf(i), Perf(k)) /\ QLt(Weight(i), Weight(k))

\* C26: at alpha = 0 every item gets weight 1/n whatever the performances
\* are, after a single iteration in which no weight is negative and no
\* index is removed.
C26_UniformWhateverReturns ==
    (N >= 1 /\ alpha = Zero)
        => /\ (pc = "computed") => ~anyNegative
           /\ Returned
                => /\ \A i \in Indices : Weight(i) = Q(1, N)
                   /\ iters = 1
                   /\ negSeen = {}
                   /\ active = AllIndices

\* Reached: alpha = 0 over three different performances, a negative one
\* included, each with weight 1/3.
C26_Witness ==
    /\ Returned /\ alpha = Zero /\ N = 3
    /\ \E i \in Indices : QLt(Perf(i), Zero)
    /\ \A i, j \in Indices : i # j => Perf(i) # Perf(j)
    /\ \A i \in Indices : Weight(i) = Q(1, 3)

\* All items have the same performance.
EqualReturns == \A i, j \in Indices : Perf(i) = Perf(j)

\* The weights of the returned list are 1/n each; 1 at the front, 0 behind.
UniformResult == \A i \in Indices : Weight(i) = Q(1, N)

FrontResult == \A i \in Indices : Weight(i) = IF i = 1 THEN One ELSE Zero

\* C27, as stated: with n >= 1 equal performances every weight is 1/n for
\* 0 <= alpha < 1, at alpha = 1 the weight is 1 at index 0 and 0 elsewhere,
\* and the list returned at alpha = 1 differs from the one returned at
\* every alpha below 1.
C27_EqualReturnsDiffer ==
    (Returned /\ N >= 1 /\ EqualReturns /\ InUnit(alpha))
        => /\ InGeneralRange(alpha) => UniformResult
           /\ (alpha = One) => FrontResult
           /\ \A a \in SliderAlphas :
                  (a # One)
                      => OptimizePortfolio(items, a) # OptimizePortfolio(items, One)

\* C27, amended: as stated for n >= 2; for n = 1 the list returned at
\* alpha = 1 is the list returned at every alpha below 1 (weight 1).
C27_EqualReturnsDifferFromTwo ==
    (Returned /\ N >= 1 /\ EqualReturns /\ InUnit(alpha))
        => /\ InGeneralRange(alpha) => UniformResult
           /\ (alpha = One) => FrontResult
           /\ \A a \in SliderAlphas :
                  (a # One)
                      => ((OptimizePortfolio(items, a) = OptimizePortfolio(items, One))
                             <=> (N = 1))

\* Reached: alpha = 1 over three equal performances of different sectors,
\* weight 1 at the front, where alpha = 1/2 gives 1/3 to the first item.
C27_Witness ==
    /\ Returned /\ alpha = One /\ N = 3 /\ EqualReturns
    /\ \E i, j \in Indices : items[i].sector # items[j].sector
    /\ FrontResult
    /\ WeightAt(Q(1, 2), 1) = Q(1, 3)

\* The constants added to every performance.
Shifts == {Q(-1, 1), Q(1, 10), Q(11, 1)}

\* The item list with c added to the performance of every item.
Shifted(its, c) ==
    [i \in 1..Len(its) |->
        [sector |-> its[i].sector,
         performance |-> QAdd(its[i].performance, c)]]

WeightsOf(res) == [i \in 1..Len(res) |-> res[i].weight]

\* C28: for alpha in [0,1], adding a constant to every performance leaves
\* every returned weight unchanged.
C28_ShiftInvariant ==
    (Returned /\ InUnit(alpha))
        => \A c \in Shifts :
               WeightsOf(OptimizePortfolio(Shifted(items, c), alpha)) = ResultWeights

\* Reached: a list with a negative performance and a removed index whose
\* unequal positive weights are the same after a shift that makes every
\* performance positive.
C28_Witness ==
    /\ Returned /\ N >= 3 /\ InGeneralRange(alpha) /\ negSeen # {}
    /\ \E i \in Indices : QLt(Perf(i), Zero)
    /\ \E i, j \in Indices : QLt(Zero, Weight(i)) /\ QLt(Weight(i), Weight(j))
    /\ \E c \in Shifts :
           /\ \A i \in Indices : QLt(Zero, QAdd(Perf(i), c))
           /\ WeightsOf(OptimizePortfolio(Shifted(items, c), alpha)) = ResultWeights

\* The indices of strictly positive weight in the list returned at a.
Support(a) == {i \in Indices : QLt(Zero, WeightAt(a, i))}

ResultSupport == {i \in Indices : QLt(Zero, Weight(i))}

\* C29: for alpha1 <= alpha2 in [0,1] every index of strictly positive
\* weight at alpha2 has a strictly positive weight at alpha1; alpha2 is the
\* alpha of the returned call, alpha1 any smaller one.
C29_SupportShrinks ==
    (Returned /\ N >= 1 /\ InUnit(alpha))
        => \A a1 \in SliderAlphas :
               QLe(a1, alpha)
                   => LET atA1 == OptimizePortfolio(items, a1)
                      IN  \A i \in ResultSupport : QLt(Zero, atA1[i].weight)

\* Reached: a list whose support at alpha = 3/4 is strictly inside its
\* support at alpha = 1/4 and strictly contains its support at alpha = 1.
C29_Witness ==
    /\ Returned /\ N >= 3 /\ alpha = Q(3, 4)
    /\ ResultSupport \subseteq Support(Q(1, 4)) /\ ResultSupport # Support(Q(1, 4))
    /\ Support(One) \subseteq ResultSupport /\ Support(One) # ResultSupport

\* The smallest index whose performance is the minimum over all items.
FirstMin ==
    CHOOSE i \in Indices :
        /\ \A j \in Indices : QLe(Perf(i), Perf(j))
        /\ \A j \in Indices : j < i => QLt(Perf(i), Perf(j))

\* C30: for alpha < 0 or alpha > 1 the returned weights follow the reverse
\* order of the performances: a performance at least as high gets a weight
\* at most as high, the item of lowest performance gets the largest weight,
\* and every removed index has a performance at least as high as every
\* index that keeps a positive weight.
C30_PreferenceInverted ==
    (Returned /\ N >= 1 /\ OutOfRange(alpha))
        => /\ \A i, j \in Indices :
                  QLe(Perf(j), Perf(i)) => QLe(Weight(i), Weight(j))
           /\ \A i \in Indices : QLe(Weight(i), Weight(FirstMin))
           /\ \A i \in negSeen :
                  /\ Weight(i) = Zero
                  /\ \A j \in ResultSupport : QLe(Perf(j), Perf(i))

\* Reached: alpha above 1 with the item of highest performance removed and
\* the item of lowest performance holding the strictly largest weight.
C30_Witness ==
    /\ Returned /\ N >= 3 /\ QLt(One, alpha)
    /\ FirstMax \in negSeen /\ Weight(FirstMax) = Zero
    /\ \A i \in Indices : i # FirstMin => QLt(Weight(i), Weight(FirstMin))
    /\ Cardinality(ResultSupport) >= 2

====
